---------------------------- MODULE Spec2Model ----------------------------
(***************************************************************************)
(* LogVault Python SDK (logvault/client.py): the blocking Client and the   *)
(* cooperative AsyncClient driven against one scripted transport.          *)
(*                                                                         *)
(* The transport is a script: the n-th request of a call is answered by    *)
(* script[n].  The script is extended, one nondeterministically chosen     *)
(* outcome at a time, by whichever client first issues an n-th request, so *)
(* both clients meet the same sequence of transport outcomes.              *)
(*                                                                         *)
(* The caller is one thread that makes the same call on both clients, in   *)
(* either order: it starts the call on one client, lets it run to its end, *)
(* and then makes the call with the same arguments on the other client     *)
(* (when that client has the operation).                                   *)
(*                                                                         *)
(* Further specifications over the same state drive the clients through    *)
(* their whole life (SpecLifecycle: repeated calls, "async with"), run two *)
(* AsyncClient.log tasks side by side (SpecConcurrent), and feed the       *)
(* action validator a richer set of strings (SpecValidator).               *)
(***************************************************************************)
EXTENDS Integers, Sequences, FiniteSets, TLC

\* ------------------------------------------------------------------ bounds

\* max_retries is drawn from 0 .. MaxRetriesBound at construction.
MaxRetriesBound == 2

\* Action strings and search queries are at most MaxLen characters long.
MaxLen == 3

\* Under SpecLifecycle max_retries is drawn from 0 .. LifecycleRetries.
LifecycleRetries == 1

\* Under SpecValidator action strings are at most MaxActionLen characters
\* long.
MaxActionLen == 4

\* Under SpecConcurrent max_retries is drawn from 0 .. ConcurrentRetries.
ConcurrentRetries == 1

\* ------------------------------------------------------------- vocabulary

Clients == {"sync", "async"}

\* The coroutines running AsyncClient calls on the one AsyncClient: "async"
\* is the caller's own, "async2" a second task running beside it.
Tasks == {"async", "async2"}

\* Everything that can be inside a call.
Callers == Clients \cup Tasks

\* The characters the action strings tried are built from: a letter, the dot,
\* a character outside the grammar, and the line feed.
Chars == {"a", ".", "-", "\n"}

\* The characters [a-z0-9_] matches under re.IGNORECASE, by representatives:
\* a lower-case letter, an upper-case letter, a digit, the underscore.
WordChars == {"a", "Z", "7", "_"}

\* All sequences over S of length at most n.
RECURSIVE SeqsUpTo(_, _)
SeqsUpTo(S, n) ==
    IF n = 0 THEN {<<>>}
    ELSE LET shorter == SeqsUpTo(S, n - 1)
         IN  shorter \cup {Append(s, c) : s \in {t \in shorter : Len(t) = n - 1}, c \in S}

Strings == SeqsUpTo(Chars, MaxLen)

\* Lengths of the search queries tried (only len(query) is read by the code).
QueryLens == 0 .. MaxLen

\* Payloads handed to json.dumps: either it raises (TypeError for an
\* unsupported value type, ValueError for a circular structure), or it yields
\* a string of the given length.
MaxPayloadSize == 1024 * 1024

PayloadSizes == {MaxPayloadSize - 1, MaxPayloadSize, MaxPayloadSize + 1}

Payloads ==
    {[dumps |-> e, size |-> 0] : e \in {"TypeError", "ValueError"}}
      \cup {[dumps |-> "ok", size |-> n] : n \in PayloadSizes}

\* page_size arguments tried by list_events.
PageSizes == {0, 50, 100, 500}

\* What the transport can answer to one request.
\*   exc = "none": a response with a status; body tells what decoding it as
\*     JSON does: "json" (a JSON body with a JSON content type), "badtype" (a
\*     JSON body under another content type), "badjson" (not JSON at all);
\*     retry_after tells whether the Retry-After header is present.
\*   exc = "connect": the connection could not be established.
\*   exc = "timeout": the read timed out.
Response(st, b, ra) == [exc |-> "none", status |-> st, body |-> b, retry_after |-> ra]

Failure(e) == [exc |-> e, status |-> 0, body |-> "none", retry_after |-> FALSE]

Outcomes ==
    {Response(st, "json", FALSE) :
        st \in {200, 201, 202, 400, 401, 404, 422, 429, 501, 503}}
      \cup {Response(200, "badtype", FALSE), Response(200, "badjson", FALSE),
            Response(429, "json", TRUE), Response(413, "json", TRUE)}
      \cup {Failure("connect"), Failure("timeout")}

\* The error kinds of logvault/exceptions.py.
TypedErrors == {"AuthenticationError", "ValidationError", "RateLimitError", "APIError"}

\* ------------------------------------------------------- action validator

\* ACTION_REGEX = ^[a-z0-9_]+(\.[a-z0-9_]+)+$ with re.IGNORECASE, run as the
\* automaton of the pattern:
\*   "start" -w-> "seg1" -w-> "seg1", "seg1" -.-> "dot",
\*   "dot" -w-> "segN", "segN" -w-> "segN", "segN" -.-> "dot"; all else "dead".
RegexStep(q, c) ==
    CASE q = "start" /\ c \in WordChars -> "seg1"
      [] q = "seg1"  /\ c \in WordChars -> "seg1"
      [] q = "seg1"  /\ c = "."         -> "dot"
      [] q = "dot"   /\ c \in WordChars -> "segN"
      [] q = "segN"  /\ c \in WordChars -> "segN"
      [] q = "segN"  /\ c = "."         -> "dot"
      [] OTHER                          -> "dead"

RECURSIVE RegexRun(_, _)
RegexRun(q, s) ==
    IF s = <<>> THEN q ELSE RegexRun(RegexStep(q, Head(s)), Tail(s))

\* ACTION_REGEX.match(action): "$" matches at the end of the string and also
\* just before a line feed that ends the string.
ActionMatches(s) ==
    \/ RegexRun("start", s) = "segN"
    \/ /\ Len(s) >= 1
       /\ s[Len(s)] = "\n"
       /\ RegexRun("start", SubSeq(s, 1, Len(s) - 1)) = "segN"

\* ------------------------------------------------------------------ state

VARIABLES
    max_retries,  \* the retry budget both clients were constructed with
    config,       \* per client: api_key, base_url, timeout, headers
    script,       \* the transport outcomes fixed so far, by request number
    pc,           \* per caller: "idle", "sending", "sleeping", "done"
    call,         \* per caller: the operation in progress and its inputs
    total,        \* sync: what is left of urllib3's Retry.total in this call
    attempt,      \* per task: AsyncClient.log's local attempt counter
    requests,     \* per caller: requests issued by the current call
    sleeps,       \* per task: the 2^attempt part of each backoff delay slept
    delay,        \* per task: the last delay handed to asyncio.sleep, in ms
    outcome,      \* per caller: how the call ended
    logged,       \* per client: diagnostics written through logging
    session,      \* async: self._session: "None", or the state of the
                  \* aiohttp.ClientSession it refers to, "open" or "closed"
    orphans,      \* async: open sessions self._session no longer refers to
    scope         \* async: the "async with" block: "never" entered, "in",
                  \* or "exited"

vars == <<max_retries, config, script, pc, call, total, attempt, requests,
          sleeps, delay, outcome, logged, session, orphans, scope>>

NoCall == [op |-> "none", method |-> "none", action |-> <<>>,
           payload |-> [dumps |-> "ok", size |-> 0], page_size |-> 0, query |-> 0]

NoOutcome == [kind |-> "none", msg |-> "", action |-> <<>>, cls |-> "", status |-> 0, body |-> 0]

\* A returned value: the decoded body of the n-th response of the call.
Result(n) == [NoOutcome EXCEPT !.kind = "result", !.body = n]

\* return None
NullResult == [NoOutcome EXCEPT !.kind = "null"]

\* A raised exception of class k whose message is the text m.
Raised(k, m) == [NoOutcome EXCEPT !.kind = k, !.msg = m]

\* ... whose message also embeds the action string a,
RaisedAction(k, m, a) == [Raised(k, m) EXCEPT !.action = a]

\* ... the class name cls of the exception it was made from,
RaisedFrom(k, m, cls) == [Raised(k, m) EXCEPT !.cls = cls]

\* ... the status code st,
RaisedStatus(k, m, st) == [Raised(k, m) EXCEPT !.status = st]

\* ... the body text of the n-th response of the call.
RaisedBody(k, m, n) == [Raised(k, m) EXCEPT !.body = n]

\* api_key arguments tried, as the prefix and the rest of the string: a key
\* in the test-mode format, and one without a known prefix.
ApiKeys == {<<"lv_test_", "abc123">>, <<"invalid_key">>}

\* self.api_key.startswith(("lv_live_", "lv_test_"))
HasKnownPrefix(key) == Head(key) \in {"lv_live_", "lv_test_"}

PrefixWarning == "WARNING [LogVault] API key does not start with expected prefix."

\* The default base_url argument.
DefaultBaseUrl == "https://api.logvault.eu"

\* self.headers as the two constructors build it for the key.
Headers(c, key) ==
    [Authorization |-> <<"Bearer ">> \o key,
     ContentType |-> "application/json",
     UserAgent |-> IF c = "sync" THEN "logvault-python/" ELSE "logvault-python-async/",
     XClientVersion |-> "__version__"]

\* The attributes Client.__init__ / AsyncClient.__init__ set from their
\* arguments (timeouts at their defaults: (5.0, 10.0) and total=10.0).
Configured(c, key) ==
    [api_key |-> key,
     base_url |-> DefaultBaseUrl,
     timeout |-> IF c = "sync" THEN <<5, 10>> ELSE <<10>>,
     headers |-> Headers(c, key)]

\* Both clients just constructed with one of the keys and one of the retry
\* budgets.
Constructed(keys, budgets) ==
    /\ max_retries \in budgets
    /\ \E key \in keys :
          /\ config = [c \in Clients |-> Configured(c, key)]
          /\ logged = [c \in Clients |->
                         IF c = "sync" /\ ~HasKnownPrefix(key) THEN {PrefixWarning} ELSE {}]
    /\ script = <<>>
    /\ pc = [c \in Callers |-> "idle"]
    /\ call = [c \in Callers |-> NoCall]
    /\ total = 0
    /\ attempt = [t \in Tasks |-> 0]
    /\ requests = [c \in Callers |-> 0]
    /\ sleeps = [t \in Tasks |-> <<>>]
    /\ delay = [t \in Tasks |-> 0]
    /\ outcome = [c \in Callers |-> NoOutcome]
    /\ session = "None"
    /\ orphans = 0
    /\ scope = "never"

Init == Constructed({<<"lv_test_", "abc123">>}, 0 .. MaxRetriesBound)

\* The caller c pairs its calls with: the two clients with each other, the
\* second task with the first.
Other(c) == IF c = "async" THEN "sync" ELSE "async"

\* The caller starts the call cl on c when c is idle and the other client is
\* idle too, or has finished the same call; the second task is started on
\* the call the first task is in.
CanCall(c, cl) ==
    /\ pc[c] = "idle"
    /\ IF c = "async2"
       THEN pc["async"] # "idle" /\ call["async"] = cl
       ELSE \/ pc[Other(c)] = "idle"
            \/ pc[Other(c)] = "done" /\ call[Other(c)] = cl

\* The transport answers request number n with o.
Answers(n, o) ==
    IF n <= Len(script)
    THEN o = script[n] /\ script' = script
    ELSE script' = Append(script, o)

\* The call of client c ends with outcome r.
Finish(c, r) ==
    /\ pc' = [pc EXCEPT ![c] = "done"]
    /\ outcome' = [outcome EXCEPT ![c] = r]

\* ------------------------------------------------------------ sync Client

\* Mutant: 401 listed among the statuses the adapter re-sends on.
status_forcelist_With401 == {401, 429, 500, 502, 503, 504}

\* urllib3's Retry as Client.__init__ configures it.
status_forcelist == {429, 500, 502, 503, 504}

allowed_methods == {"POST"}

\* urllib3: the statuses retried when the response carries Retry-After.
RETRY_AFTER_STATUS_CODES == {413, 429, 503}

\* Retry.is_retry(method, status_code, has_retry_after) of a Retry with tot
\* left in total: the Retry-After rule applies only while total is not 0.
IsRetry(tot, method, status, has_retry_after) ==
    /\ method \in allowed_methods
    /\ \/ status \in status_forcelist
       \/ tot # 0 /\ has_retry_after /\ status \in RETRY_AFTER_STATUS_CODES

\* Whether Retry.increment counts a failed request instead of re-raising it:
\* a failure to connect is counted for every method, a read failure only for
\* the methods that may be re-sent.
CountsError(method, exc) ==
    exc = "connect" \/ (exc = "timeout" /\ method \in allowed_methods)

\* What session.post / session.get does with the answer o to one request,
\* with tot retries left: re-send ("retry"), raise a
\* requests.exceptions.RequestException of class cls ("raise"), or hand the
\* response to the caller ("response").
AdapterStep(method, o, tot) ==
    IF o.exc # "none" THEN
        IF ~CountsError(method, o.exc)
        THEN [do |-> "raise", cls |-> "ReadTimeout"]
        ELSE IF tot - 1 < 0
             THEN [do |-> "raise", cls |-> "ConnectionError"]
             ELSE [do |-> "retry", cls |-> ""]
    ELSE IF IsRetry(tot, method, o.status, o.retry_after) THEN
        IF tot - 1 < 0
        THEN [do |-> "raise", cls |-> "RetryError"]
        ELSE [do |-> "retry", cls |-> ""]
    ELSE [do |-> "response", cls |-> ""]

\* except requests.exceptions.RequestException as e: raise APIError(...)
ConnectionErrorOf(cls) == RaisedFrom("APIError", "LogVault Connection Error: ", cls)

\* response.raise_for_status(); return response.json()
\* n is the number of the response within the call.
RaiseForStatusThenJson(r, n) ==
    IF r.status >= 400 /\ r.status < 600 THEN ConnectionErrorOf("HTTPError")
    ELSE IF r.body = "badjson" THEN ConnectionErrorOf("JSONDecodeError")
    ELSE Result(n)

\* Mutant: log handles 422 no differently from the other operations.
SyncClassify_No422(op, r, n) ==
    IF r.status = 401 THEN Raised("AuthenticationError", "Invalid API key")
    ELSE IF op \in {"get_event", "verify_event"} /\ r.status = 404
         THEN Raised("APIError", "Event not found: ")
    ELSE RaiseForStatusThenJson(r, n)

\* What each operation of Client does with the response r it got back.
SyncClassify(op, r, n) ==
    IF r.status = 401 THEN Raised("AuthenticationError", "Invalid API key")
    ELSE IF op = "log" /\ r.status = 422
         THEN RaisedBody("ValidationError", "Validation failed: ", n)
    ELSE IF op \in {"get_event", "verify_event"} /\ r.status = 404
         THEN Raised("APIError", "Event not found: ")
    ELSE RaiseForStatusThenJson(r, n)

\* Mutant: only TypeError is caught; a ValueError payload is taken as
\* serialized.
SyncSerialize_OnlyTypeError(p) ==
    IF p.dumps = "TypeError" THEN "null"
    ELSE IF p.dumps = "ok" /\ p.size > MaxPayloadSize THEN "too_big"
    ELSE "ok"

\* Client.log, step 2: json.dumps(payload) and the size check.
\*   "null": the serialization failure is logged and None returned;
\*   "too_big": ValidationError is raised; "ok": the request goes out.
SyncSerialize(p) ==
    IF p.dumps # "ok" THEN "null"
    ELSE IF p.size > MaxPayloadSize THEN "too_big"
    ELSE "ok"

SerializationFailed == "ERROR [LogVault] Serialization failed"

\* A call of client c that got past its local checks and is about to send.
Begin(c, cl) ==
    /\ pc' = [pc EXCEPT ![c] = "sending"]
    /\ call' = [call EXCEPT ![c] = cl]
    /\ requests' = [requests EXCEPT ![c] = 0]
    /\ outcome' = [outcome EXCEPT ![c] = NoOutcome]

\* A call of client c that ends in its local checks with outcome r.
Reject(c, cl, r) ==
    /\ pc' = [pc EXCEPT ![c] = "done"]
    /\ call' = [call EXCEPT ![c] = cl]
    /\ requests' = [requests EXCEPT ![c] = 0]
    /\ outcome' = [outcome EXCEPT ![c] = r]

\* Client.log(action, ...) up to the point where the request is handed to
\* the session.
SyncLog(a, p) ==
    LET cl == [NoCall EXCEPT !.op = "log", !.method = "POST", !.action = a, !.payload = p]
    IN
    /\ CanCall("sync", cl)
    /\ IF ~ActionMatches(a) THEN
          /\ Reject("sync", cl, RaisedAction("ValidationError", "Invalid action format", a))
          /\ UNCHANGED <<total, logged>>
       ELSE IF SyncSerialize(p) = "null" THEN
          /\ Reject("sync", cl, NullResult)
          /\ logged' = [logged EXCEPT !["sync"] = @ \cup {SerializationFailed}]
          /\ UNCHANGED total
       ELSE IF SyncSerialize(p) = "too_big" THEN
          /\ Reject("sync", cl, Raised("ValidationError", "Payload size exceeds 1MB"))
          /\ UNCHANGED <<total, logged>>
       ELSE
          /\ Begin("sync", cl)
          /\ total' = max_retries
          /\ UNCHANGED logged
    /\ UNCHANGED <<max_retries, config, script, attempt, sleeps, delay, session,
                   orphans, scope>>

\* min(page_size, 100)
ClampPageSize(page_size) == IF page_size < 100 THEN page_size ELSE 100

\* Client.list_events(page_size=ps) up to the request.
SyncListEvents(ps) ==
    LET cl == [NoCall EXCEPT !.op = "list_events", !.method = "GET",
                             !.page_size = ClampPageSize(ps)]
    IN
    /\ CanCall("sync", cl)
    /\ Begin("sync", cl)
    /\ total' = max_retries
    /\ UNCHANGED <<max_retries, config, script, attempt, sleeps, delay, logged,
                   session, orphans, scope>>

\* Client.get_event(event_id) and Client.verify_event(event_id) up to the
\* request.
SyncGetEvent(op) ==
    LET cl == [NoCall EXCEPT !.op = op, !.method = "GET"]
    IN
    /\ op \in {"get_event", "verify_event"}
    /\ CanCall("sync", cl)
    /\ Begin("sync", cl)
    /\ total' = max_retries
    /\ UNCHANGED <<max_retries, config, script, attempt, sleeps, delay, logged,
                   session, orphans, scope>>

\* Mutant: only the empty query is refused.
QueryTooShort_OffByOne(q) == q < 1

\* if len(query) < 2 (in both clients); q is len(query).
QueryTooShort(q) == q < 2

\* Client.search_events(query) up to the request; q is len(query).
SyncSearchEvents(q) ==
    LET cl == [NoCall EXCEPT !.op = "search_events", !.method = "GET", !.query = q]
    IN
    /\ CanCall("sync", cl)
    /\ IF QueryTooShort(q) THEN
          /\ Reject("sync", cl, Raised("ValidationError", "Query must be at least 2 characters"))
          /\ UNCHANGED total
       ELSE
          /\ Begin("sync", cl)
          /\ total' = max_retries
    /\ UNCHANGED <<max_retries, config, script, attempt, sleeps, delay, logged,
                   session, orphans, scope>>

\* One request of the sync session and what follows it: the adapter re-sends,
\* or the operation returns or raises.
SyncAttempt ==
    /\ pc["sync"] = "sending"
    /\ \E o \in Outcomes :
         LET n == requests["sync"] + 1
             step == AdapterStep(call["sync"].method, o, total)
         IN
         /\ Answers(n, o)
         /\ requests' = [requests EXCEPT !["sync"] = n]
         /\ IF step.do = "retry" THEN
               /\ total' = total - 1
               /\ UNCHANGED <<pc, outcome>>
            ELSE IF step.do = "raise" THEN
               /\ Finish("sync", ConnectionErrorOf(step.cls))
               /\ UNCHANGED total
            ELSE
               /\ Finish("sync", SyncClassify(call["sync"].op, o, n))
               /\ UNCHANGED total
    /\ UNCHANGED <<max_retries, config, call, attempt, sleeps, delay, logged,
                   session, orphans, scope>>

\* ------------------------------------------------------------ AsyncClient

RECURSIVE Pow2(_)
Pow2(n) == IF n = 0 THEN 1 ELSE 2 * Pow2(n - 1)

\* What random.randint(0, 1000) returns, by the two ends of its range.
Jitters == {0, 1000}

\* Mutant: the exponent counts the retries from zero.
Delay_FromZero(att, j) == 1000 * Pow2(att - 1) + j

\* delay = (2 ** attempt) + (random.randint(0, 1000) / 1000), in
\* milliseconds, for the value j that randint returned.
Delay(att, j) == 1000 * Pow2(att) + j

\* Mutant: one attempt counter on the client, shared by all its tasks.
Counter_Shared(t) == "async"

\* "attempt = 0" makes the counter a local variable of the coroutine: each
\* task counts in its own.
Counter(t) == t

\* if not self._session: self._session = aiohttp.ClientSession(...)
\* A closed ClientSession is an object like any other, hence true.
EnsureSession == session' = IF session = "None" THEN "open" ELSE session

\* Mutant: the session is closed only when the block is left normally.
CloseOnExit_OnlyNormal(s, exc) == IF s # "None" /\ ~exc THEN "closed" ELSE s

\* __aexit__(exc_type, ...): if self._session: await self._session.close()
\* exc tells whether the block is left through an exception.
CloseOnExit(s, exc) == IF s # "None" THEN "closed" ELSE s

\* The call of c ended in a raised exception.
Raising(c) == pc[c] = "done" /\ outcome[c].kind \notin {"none", "result", "null"}

\* The caller is inside no call: it is one thread, which a call of the sync
\* client blocks and which awaits the calls it makes on the AsyncClient.
AtRest == \A c \in Callers : pc[c] \in {"idle", "done"}

\* async with client: ... is entered, by a caller that holds no result and
\* no exception of an earlier call: __aenter__ makes a new session and binds
\* it to self._session, whatever was bound before.
AEnter ==
    /\ scope # "in"
    /\ \A c \in Callers : pc[c] = "idle"
    /\ session' = "open"
    /\ orphans' = IF session = "open" THEN orphans + 1 ELSE orphans
    /\ scope' = "in"
    /\ UNCHANGED <<max_retries, config, script, pc, call, total, attempt, requests,
                   sleeps, delay, outcome, logged>>

\* The "async with" block is left, normally or through the exception the
\* last call in it raised: __aexit__.
AExit ==
    /\ scope = "in"
    /\ AtRest
    /\ session' = CloseOnExit(session, Raising("async"))
    /\ scope' = "exited"
    /\ UNCHANGED <<max_retries, config, script, pc, call, total, attempt, requests,
                   sleeps, delay, outcome, logged, orphans>>

\* AsyncClient.log: json.dumps(payload) under "except Exception".
\*   "null": the failure is logged and None returned; "ok": the request goes
\*   out.
AsyncSerialize(p) == IF p.dumps # "ok" THEN "null" ELSE "ok"

\* Mutant: 201 is not taken as a success.
IsSuccessStatus_Only200(st) == st = 200

\* if response.status == 200 or response.status == 201
IsSuccessStatus(st) == st = 200 \/ st = 201

\* The body of "async with self._session.post(...)" for the answer o, with
\* the counter at att: what the attempt does before any except clause.
\*   "return" / "raise": the call ends with outcome out;
\*   "caught": an aiohttp.ClientError or asyncio.TimeoutError of class cls
\*   reaches the except clause.
\* n is the number of the response within the call.
AsyncLogTry(o, att, n) ==
    IF o.exc = "connect" THEN [do |-> "caught", cls |-> "ClientConnectionError", out |-> NoOutcome]
    ELSE IF o.exc = "timeout" THEN [do |-> "caught", cls |-> "TimeoutError", out |-> NoOutcome]
    ELSE IF IsSuccessStatus(o.status) THEN
        IF o.body = "json" THEN [do |-> "return", cls |-> "", out |-> Result(n)]
        ELSE IF o.body = "badtype"
             THEN [do |-> "caught", cls |-> "ContentTypeError", out |-> NoOutcome]
        ELSE [do |-> "raise", cls |-> "", out |-> Raised("JSONDecodeError", "")]
    ELSE IF o.status = 401
         THEN [do |-> "raise", cls |-> "",
               out |-> Raised("AuthenticationError", "Invalid API key")]
    ELSE IF o.status = 422
         THEN [do |-> "raise", cls |-> "",
               out |-> RaisedBody("ValidationError", "Validation failed: ", n)]
    ELSE IF att < max_retries /\ (o.status = 429 \/ o.status >= 500)
         THEN [do |-> "caught", cls |-> "ClientError", out |-> NoOutcome]
    ELSE [do |-> "raise", cls |-> "", out |-> RaisedStatus("APIError", "HTTP ", o.status)]

\* Mutant: the budget check is off by one.
Exhausted_OffByOne(att) == att > max_retries + 1

\* except (aiohttp.ClientError, asyncio.TimeoutError): whether the counter,
\* already incremented to att, has run past the budget.
Exhausted(att) == att > max_retries

\* Mutant: the failure is counted by taking one off the client's budget.
CountFailure_OffBudget(t) ==
    /\ attempt' = [attempt EXCEPT ![Counter(t)] = @ + 1]
    /\ max_retries' = max_retries - 1

\* attempt += 1: the failure is counted in the task's counter, and in nothing
\* else.
CountFailure(t) ==
    /\ attempt' = [attempt EXCEPT ![Counter(t)] = @ + 1]
    /\ max_retries' = max_retries

\* aiohttp refuses a request on a closed session before anything is sent.
SessionIsClosed == Raised("RuntimeError", "Session is closed")

\* AsyncClient.log(action, **kwargs), run by task t, up to the retry loop.
AsyncLog(t, a, p) ==
    LET cl == [NoCall EXCEPT !.op = "log", !.method = "POST", !.action = a, !.payload = p]
    IN
    /\ CanCall(t, cl)
    /\ EnsureSession
    /\ IF ~ActionMatches(a) THEN
          /\ Reject(t, cl, RaisedAction("ValidationError", "Invalid action format", a))
          /\ UNCHANGED <<attempt, sleeps, delay, logged>>
       ELSE IF AsyncSerialize(p) = "null" THEN
          /\ Reject(t, cl, NullResult)
          /\ logged' = [logged EXCEPT !["async"] = @ \cup {SerializationFailed}]
          /\ UNCHANGED <<attempt, sleeps, delay>>
       ELSE
          /\ Begin(t, cl)
          /\ attempt' = [attempt EXCEPT ![Counter(t)] = 0]
          /\ sleeps' = [sleeps EXCEPT ![t] = <<>>]
          /\ delay' = [delay EXCEPT ![t] = 0]
          /\ UNCHANGED logged
    /\ UNCHANGED <<max_retries, config, script, total, orphans, scope>>

\* One turn of task t's retry loop: the POST, the classification of its
\* answer, and the except clause up to asyncio.sleep.
AsyncLogAttempt(t) ==
    /\ pc[t] = "sending"
    /\ call[t].op = "log"
    /\ IF session = "closed" THEN
          /\ Finish(t, SessionIsClosed)
          /\ UNCHANGED <<max_retries, script, attempt, requests, sleeps, delay>>
       ELSE
          \E o \in Outcomes :
            LET n == requests[t] + 1
                try == AsyncLogTry(o, attempt[Counter(t)], n)
            IN
            /\ Answers(n, o)
            /\ requests' = [requests EXCEPT ![t] = n]
            /\ IF try.do # "caught" THEN
                  /\ Finish(t, try.out)
                  /\ UNCHANGED <<max_retries, attempt, sleeps, delay>>
               ELSE IF Exhausted(attempt[Counter(t)] + 1) THEN
                  /\ Finish(t, RaisedFrom("APIError", "Connection failed after retries: ", try.cls))
                  /\ CountFailure(t)
                  /\ UNCHANGED <<sleeps, delay>>
               ELSE
                  /\ CountFailure(t)
                  /\ sleeps' = [sleeps EXCEPT ![t] = Append(@, Pow2(attempt[Counter(t)] + 1))]
                  /\ \E j \in Jitters :
                        delay' = [delay EXCEPT ![t] = Delay(attempt[Counter(t)] + 1, j)]
                  /\ pc' = [pc EXCEPT ![t] = "sleeping"]
                  /\ UNCHANGED outcome
    /\ UNCHANGED <<config, call, total, logged, session, orphans, scope>>

\* asyncio.sleep(delay) returns and task t's loop goes round.
AsyncWake(t) ==
    /\ pc[t] = "sleeping"
    /\ pc' = [pc EXCEPT ![t] = "sending"]
    /\ UNCHANGED <<max_retries, config, script, call, total, attempt, requests,
                   sleeps, delay, outcome, logged, session, orphans, scope>>

\* AsyncClient.list_events(page_size=ps) up to the request.
AsyncListEvents(ps) ==
    LET cl == [NoCall EXCEPT !.op = "list_events", !.method = "GET",
                             !.page_size = ClampPageSize(ps)]
    IN
    /\ CanCall("async", cl)
    /\ EnsureSession
    /\ Begin("async", cl)
    /\ UNCHANGED <<max_retries, config, script, total, attempt, sleeps, delay, logged,
                   orphans, scope>>

\* AsyncClient.search_events(query) up to the request; q is len(query).
AsyncSearchEvents(q) ==
    LET cl == [NoCall EXCEPT !.op = "search_events", !.method = "GET", !.query = q]
    IN
    /\ CanCall("async", cl)
    /\ EnsureSession
    /\ IF QueryTooShort(q)
       THEN Reject("async", cl, Raised("ValidationError", "Query must be at least 2 characters"))
       ELSE Begin("async", cl)
    /\ UNCHANGED <<max_retries, config, script, total, attempt, sleeps, delay, logged,
                   orphans, scope>>

\* The body of "async with self._session.get(...)" of list_events and
\* search_events for the answer o: no except clause surrounds it.
AsyncGetClassify(o, n) ==
    IF o.exc = "connect" THEN Raised("ClientConnectionError", "")
    ELSE IF o.exc = "timeout" THEN Raised("TimeoutError", "")
    ELSE IF o.status = 401 THEN Raised("AuthenticationError", "Invalid API key")
    ELSE IF o.status # 200 THEN RaisedStatus("APIError", "HTTP ", o.status)
    ELSE IF o.body = "badtype" THEN Raised("ContentTypeError", "")
    ELSE IF o.body = "badjson" THEN Raised("JSONDecodeError", "")
    ELSE Result(n)

\* The one request of AsyncClient.list_events / search_events.
AsyncGetAttempt ==
    /\ pc["async"] = "sending"
    /\ call["async"].op \in {"list_events", "search_events"}
    /\ IF session = "closed" THEN
          /\ Finish("async", SessionIsClosed)
          /\ UNCHANGED <<script, requests>>
       ELSE
          \E o \in Outcomes :
            LET n == requests["async"] + 1
            IN
            /\ Answers(n, o)
            /\ requests' = [requests EXCEPT !["async"] = n]
            /\ Finish("async", AsyncGetClassify(o, n))
    /\ UNCHANGED <<max_retries, config, call, total, attempt, sleeps, delay, logged,
                   session, orphans, scope>>

\* The caller has the result of c's call, or has handled what it raised, and
\* c is free for the next call: what the call kept in local variables (the
\* adapter's copy of Retry, the coroutine's counter and delay) is gone with
\* it.  Once the call has been through both clients the transport is free to
\* answer the next call otherwise.
Return(c) ==
    /\ pc[c] = "done"
    /\ pc' = [pc EXCEPT ![c] = "idle"]
    /\ call' = [call EXCEPT ![c] = NoCall]
    /\ requests' = [requests EXCEPT ![c] = 0]
    /\ outcome' = [outcome EXCEPT ![c] = NoOutcome]
    /\ script' = IF pc[Other(c)] = "done" THEN script ELSE <<>>
    /\ total' = IF c = "sync" THEN 0 ELSE total
    /\ attempt' = IF c \in Tasks THEN [attempt EXCEPT ![c] = 0] ELSE attempt
    /\ sleeps' = IF c \in Tasks THEN [sleeps EXCEPT ![c] = <<>>] ELSE sleeps
    /\ delay' = IF c \in Tasks THEN [delay EXCEPT ![c] = 0] ELSE delay
    /\ UNCHANGED <<max_retries, config, logged, session, orphans, scope>>

\* ---------------------------------------------------------- specification

\* The arguments the caller may pass to client c: any of S, or the argument v
\* of the call already made on the other client.
Args(c, S, v) == IF pc[Other(c)] = "done" THEN {v} \cap S ELSE S

\* The caller's next call on the sync client, with arguments from the sets
\* given: action strings, payloads, page sizes, query lengths.
SyncCallOf(S, P, Z, Q) ==
    LET made == call["async"]
    IN
    /\ pc["sync"] = "idle"
    /\ \/ \E a \in Args("sync", S, made.action),
             p \in Args("sync", P, made.payload) : SyncLog(a, p)
       \/ \E ps \in Z : SyncListEvents(ps)
       \/ \E op \in {"get_event", "verify_event"} : SyncGetEvent(op)
       \/ \E q \in Q : SyncSearchEvents(q)

\* The caller's next call on the async client.
AsyncCallOf(S, P, Z, Q) ==
    LET made == call["sync"]
    IN
    /\ pc["async"] = "idle"
    /\ \/ \E a \in Args("async", S, made.action),
             p \in Args("async", P, made.payload) : AsyncLog("async", a, p)
       \/ \E ps \in Z : AsyncListEvents(ps)
       \/ \E q \in Q : AsyncSearchEvents(q)

SyncCall == SyncCallOf(Strings, Payloads, PageSizes, QueryLens)

AsyncCall == AsyncCallOf(Strings, Payloads, PageSizes, QueryLens)

Next ==
    \/ SyncCall
    \/ SyncAttempt
    \/ AsyncCall
    \/ AsyncLogAttempt("async")
    \/ AsyncWake("async")
    \/ AsyncGetAttempt

Spec == Init /\ [][Next]_vars

\* The clients through their whole life: constructed with either key, used
\* for one call after another, the AsyncClient inside and outside
\* "async with".
InitLifecycle == Constructed(ApiKeys, 0 .. LifecycleRetries)

\* The arguments tried over a client's life: an action without a dot and a
\* well-formed one, a payload json.dumps rejects and one it accepts, the
\* default page size, a query too short and one long enough.
\* A payload that serializes to two bytes: {}.
SmallPayload == [dumps |-> "ok", size |-> 2]

LifecycleStrings == {<<"a">>, <<"a", ".", "a">>}

LifecyclePayloads == {[dumps |-> "TypeError", size |-> 0], SmallPayload}

SyncLifecycleCall == SyncCallOf(LifecycleStrings, LifecyclePayloads, {50}, {1, 2})

AsyncLifecycleCall == AsyncCallOf(LifecycleStrings, LifecyclePayloads, {50}, {1, 2})

NextLifecycle ==
    \/ SyncLifecycleCall
    \/ SyncAttempt
    \/ AsyncLifecycleCall
    \/ AsyncLogAttempt("async")
    \/ AsyncWake("async")
    \/ AsyncGetAttempt
    \/ AEnter
    \/ AExit
    \/ \E c \in Clients : Return(c)

SpecLifecycle == InitLifecycle /\ [][NextLifecycle]_vars

\* The action validator on its own: log is called, on either client, with
\* every string over ValidatorChars up to MaxActionLen characters and a
\* payload that serializes.
ValidatorChars == WordChars \cup {".", "-", "\n"}

ValidatorStrings == SeqsUpTo(ValidatorChars, MaxActionLen)

SyncValidatorCall ==
    /\ pc["sync"] = "idle"
    /\ \E a \in Args("sync", ValidatorStrings, call["async"].action) :
          SyncLog(a, SmallPayload)

AsyncValidatorCall ==
    /\ pc["async"] = "idle"
    /\ \E a \in Args("async", ValidatorStrings, call["sync"].action) :
          AsyncLog("async", a, SmallPayload)

NextValidator == SyncValidatorCall \/ AsyncValidatorCall

SpecValidator == Init /\ [][NextValidator]_vars

\* Two tasks run AsyncClient.log on the one client side by side, as under
\* asyncio.gather(client.log(...), client.log(...)): the second is started,
\* with the arguments of the first, at any moment after the first, and the
\* event loop runs whichever task is ready.
InitConcurrent == Constructed({<<"lv_test_", "abc123">>}, 0 .. ConcurrentRetries)

FirstTaskCall ==
    /\ pc["async"] = "idle"
    /\ \E a \in Strings, p \in Payloads : AsyncLog("async", a, p)

SecondTaskCall ==
    /\ pc["async2"] = "idle"
    /\ pc["async"] # "idle"
    /\ AsyncLog("async2", call["async"].action, call["async"].payload)

NextConcurrent ==
    \/ FirstTaskCall
    \/ SecondTaskCall
    \/ \E t \in Tasks : AsyncLogAttempt(t)
    \/ \E t \in Tasks : AsyncWake(t)

SpecConcurrent == InitConcurrent /\ [][NextConcurrent]_vars

\* ------------------------------------------------------------- properties

\* A transient failure: status 429, a status >= 500, or a network exception.
Transient(o) == o.exc # "none" \/ o.status = 429 \/ o.status >= 500

\* A 200 or 201 response whose body decodes.
Success(o) == o.exc = "none" /\ o.status \in {200, 201} /\ o.body = "json"

\* The call of c returned: a decoded body or None.
Returned(c) == outcome[c].kind \in {"result", "null"}

C2_NoRetryAfter401 ==
    \A c \in Clients :
        call[c].op = "log" =>
            \A i \in 1 .. requests[c] :
                (script[i].exc = "none" /\ script[i].status = 401) =>
                    /\ i = requests[c]
                    /\ pc[c] = "done"
                    /\ outcome[c].kind = "AuthenticationError"

\* C2 witness: with max_retries >= 1, both clients answered 401 on the first
\* attempt of a log call have ended after exactly one request.
C2_Witness ==
    /\ max_retries >= 1
    /\ \A c \in Clients :
          /\ call[c].op = "log"
          /\ pc[c] = "done"
          /\ requests[c] = 1
          /\ script[1].status = 401
          /\ outcome[c].kind = "AuthenticationError"

\* C3: in both clients a 422 answer to a log call, at whatever attempt it
\* arrives, is the last request of the call, which fails with a
\* ValidationError whose message carries the body text of that answer.
C3_NoRetryAfter422 ==
    \A c \in Clients :
        call[c].op = "log" =>
            \A i \in 1 .. requests[c] :
                (script[i].exc = "none" /\ script[i].status = 422) =>
                    /\ i = requests[c]
                    /\ pc[c] = "done"
                    /\ outcome[c] = RaisedBody("ValidationError", "Validation failed: ", i)

\* C3 witness: both clients got the 422 on the second attempt of a log call,
\* after a retried failure, and ended there.
C3_Witness ==
    \A c \in Clients :
        /\ call[c].op = "log"
        /\ pc[c] = "done"
        /\ requests[c] = 2
        /\ Transient(script[1])
        /\ script[2].status = 422
        /\ outcome[c].kind = "ValidationError"

\* C4: when the first k <= max_retries attempts of AsyncClient.log are
\* answered by transient failures the call is still running after k backoff
\* sleeps, and when attempt k + 1 is then answered by 200 or 201 the call
\* returns the decoded body of that answer after exactly k + 1 requests and k
\* sleeps.
C4_SucceedsAfterTransients ==
    call["async"].op = "log" =>
        LET n == requests["async"]
        IN
        /\ (n >= 1 /\ n <= max_retries /\ \A i \in 1 .. n : Transient(script[i]))
              => /\ pc["async"] \in {"sending", "sleeping"}
                 /\ Len(sleeps["async"]) = n
        /\ (n >= 1 /\ Success(script[n]) /\ \A i \in 1 .. n - 1 : Transient(script[i]))
              => /\ pc["async"] = "done"
                 /\ outcome["async"] = Result(n)
                 /\ Len(sleeps["async"]) = n - 1

\* C4 witness: with max_retries >= 2, a log call that met max_retries
\* transient failures, a network exception and a status among them, and
\* succeeded on the final attempt.
C4_Witness ==
    /\ call["async"].op = "log"
    /\ pc["async"] = "done"
    /\ max_retries >= 2
    /\ requests["async"] = max_retries + 1
    /\ outcome["async"] = Result(max_retries + 1)
    /\ Len(sleeps["async"]) = max_retries
    /\ \E i, j \in 1 .. max_retries :
          script[i].exc # "none" /\ script[j].exc = "none" /\ script[j].status >= 500

\* C5 (as claimed): in both clients a log call whose every attempt is answered
\* 429 until the retry budget is used up fails with RateLimitError.
C5_RateLimitErrorWhenExhausted ==
    \A c \in Clients :
        ( /\ call[c].op = "log"
          /\ pc[c] = "done"
          /\ requests[c] = max_retries + 1
          /\ \A i \in 1 .. requests[c] : script[i].exc = "none" /\ script[i].status = 429 )
        => outcome[c].kind = "RateLimitError"

\* C6 (as claimed): for the same max_retries, the same log call (with a
\* payload within the size limit, so that both clients reach the network) and
\* the same transport outcomes (statuses with JSON bodies, and network
\* failures), Client.log and AsyncClient.log issue the same number of requests
\* and end the same way.
C6_ExecutorsAgree ==
    ( /\ pc["sync"] = "done" /\ pc["async"] = "done"
      /\ call["sync"].op = "log" /\ call["async"] = call["sync"]
      /\ call["sync"].payload.size <= 1048576
      /\ \A i \in 1 .. Len(script) : script[i].exc = "none" => script[i].body = "json" )
    => /\ requests["sync"] = requests["async"]
       /\ outcome["sync"].kind = outcome["async"].kind

\* C7 (as claimed): in every operation of both clients a call that met a
\* network-level failure either returns or raises one of the typed errors.
C7_NoRawTransportException ==
    \A c \in Clients :
        (pc[c] = "done" /\ \E i \in 1 .. requests[c] : script[i].exc # "none")
        => (Returned(c) \/ outcome[c].kind \in TypedErrors)

\* C8: in both clients a log call whose action does not match ACTION_REGEX,
\* and a search_events call whose query has fewer than 2 characters, have
\* failed with ValidationError without issuing a request.
C8_ValidationBeforeNetwork ==
    \A c \in Clients :
        ( \/ call[c].op = "log" /\ ~ActionMatches(call[c].action)
          \/ call[c].op = "search_events" /\ call[c].query < 2 )
        => /\ pc[c] = "done"
           /\ outcome[c].kind = "ValidationError"
           /\ requests[c] = 0

\* C8 witness: both clients rejected a log call with a dot-less action, the
\* async one having created its session on the way, and no request went out.
C8_Witness ==
    /\ \A c \in Clients :
          /\ call[c].op = "log"
          /\ call[c].action = <<"a">>
          /\ pc[c] = "done"
          /\ outcome[c].kind = "ValidationError"
    /\ session = "open"
    /\ script = <<>>

\* C9: in both clients a log call with a valid action whose payload json.dumps
\* cannot serialize returns None, logs the diagnostic and issues no request;
\* and a call returns None in no other case.
C9_SerializationFailureSwallowed ==
    \A c \in Clients :
        /\ ( /\ call[c].op = "log"
             /\ ActionMatches(call[c].action)
             /\ call[c].payload.dumps \in {"TypeError", "ValueError"} )
           => /\ pc[c] = "done"
              /\ outcome[c] = NullResult
              /\ SerializationFailed \in logged[c]
              /\ requests[c] = 0
        /\ (pc[c] = "done" /\ outcome[c].kind = "null")
           => /\ call[c].op = "log"
              /\ call[c].payload.dumps # "ok"

\* C9 witness: both clients returned None for a payload holding a circular
\* structure.
C9_Witness ==
    \A c \in Clients :
        /\ call[c].op = "log"
        /\ call[c].payload.dumps = "ValueError"
        /\ pc[c] = "done"
        /\ outcome[c] = NullResult
        /\ SerializationFailed \in logged[c]

\* C10 (as claimed): in both clients a log call whose serialized payload is
\* larger than 1 MiB ends in a raised ValidationError without a request, and
\* one of 1 MiB minus one byte is sent.
C10_OversizePayloadRaises ==
    \A c \in Clients :
        ( /\ call[c].op = "log"
          /\ ActionMatches(call[c].action)
          /\ call[c].payload.dumps = "ok" )
        => /\ (call[c].payload.size > 1048576 /\ pc[c] = "done")
              => /\ outcome[c].kind = "ValidationError"
                 /\ requests[c] = 0
           /\ (call[c].payload.size = 1048576 - 1 /\ pc[c] = "done")
              => requests[c] >= 1

\* C11: once the "async with" block has been left, normally or through an
\* exception raised inside it, the session the AsyncClient holds is closed
\* (and stays so for as long as the block is not entered again).
C11_ScopeExitClosesSession == scope = "exited" => session = "closed"

\* C11 witness: a log call inside the block was answered 401 and raised, the
\* exception left the block, and the session is closed.
C11_Witness ==
    /\ scope = "exited"
    /\ session = "closed"
    /\ call["async"].op = "log"
    /\ requests["async"] = 1
    /\ outcome["async"].kind = "AuthenticationError"

\* C12 (as claimed): in both clients the page_size a list_events call sends
\* lies in 1 .. 100, whatever integer was passed.
C12_PageSizeSentInRange ==
    \A c \in Clients :
        call[c].op = "list_events" =>
            call[c].page_size >= 1 /\ call[c].page_size <= 100

\* The grammar of action names: only letters, digits, underscores and dots,
\* with a dot somewhere, none at either end and no two in a row.
InGrammar(s) ==
    /\ \A i \in 1 .. Len(s) : s[i] \in WordChars \cup {"."}
    /\ \E i \in 1 .. Len(s) : s[i] = "."
    /\ s # <<>> => s[1] # "." /\ s[Len(s)] # "."
    /\ \A i \in 1 .. Len(s) - 1 : ~(s[i] = "." /\ s[i + 1] = ".")

\* The log call of c was refused by the action validator.
RefusedAction(c) ==
    /\ pc[c] = "done"
    /\ outcome[c].kind = "ValidationError"
    /\ outcome[c].msg = "Invalid action format"

\* C13 (as claimed): in both clients log lets through exactly the action
\* strings of the grammar and refuses every other string.
C13_ValidatorAcceptsExactlyGrammar ==
    \A c \in Clients :
        call[c].op = "log" => (RefusedAction(c) <=> ~InGrammar(call[c].action))

\* C14: no operation of either client, returning or raising, and no entry to
\* or exit from "async with" changes the api_key, base_url, headers or timeout
\* of a client or the retry budget: they stay as the constructor set them.
C14_ConfigurationFixed ==
    [][config' = config /\ max_retries' = max_retries]_vars

\* C14 witness: constructed with the key without prefix and max_retries = 1,
\* the clients have been through a log call answered 503 and then 202, which
\* Client.log returned from and AsyncClient.log raised on after one counted
\* failure, and the configuration is the constructor's.
C14_Witness ==
    /\ max_retries = 1
    /\ config = [c \in Clients |-> Configured(c, <<"invalid_key">>)]
    /\ pc["sync"] = "done" /\ outcome["sync"].kind = "result"
    /\ pc["async"] = "done" /\ outcome["async"].kind = "APIError"
    /\ attempt["async"] = 1
    /\ requests["sync"] = 2

\* C15 (as claimed): the message of an error raised by either client embeds
\* neither a part of the api_key nor the body of a response.
C15_MessagesFreeOfSecrets ==
    \A c \in Clients :
        Raising(c) =>
            /\ outcome[c].body = 0
            /\ \A i \in 1 .. Len(config[c].api_key) :
                  config[c].api_key[i] \notin {outcome[c].msg, outcome[c].cls}

\* The diagnostics the clients write at warning level.
Warnings == {PrefixWarning}

\* C16 (as claimed): when the AsyncClient holds a session although no
\* "async with" block was ever entered, so that an operation created it, a
\* warning-level diagnostic has been written.
C16_ImplicitSessionWarned ==
    (session # "None" /\ scope = "never") => logged["async"] \cap Warnings # {}

\* C17 (as claimed): in both clients a log call whose last answer has a
\* status that is no success, not 401, not 422 and not retried (400, 403,
\* 404) has failed with an APIError that carries that status.
C17_OtherStatusIdentified ==
    \A c \in Clients :
        ( /\ call[c].op = "log"
          /\ pc[c] = "done"
          /\ requests[c] >= 1
          /\ script[requests[c]].exc = "none"
          /\ script[requests[c]].status \in {400, 403, 404} )
        => /\ outcome[c].kind = "APIError"
           /\ outcome[c].status = script[requests[c]].status

\* C18: in AsyncClient.log the n-th backoff sleep follows the n-th request,
\* n <= max_retries, and lasts 2^n seconds plus a jitter of 0 to 1 second
\* (2 to 3 seconds for the first); each sleep is longer than the one before;
\* and the attempt that uses up the budget ends the call without a sleep.
C18_BackoffSchedule ==
    [][ LET n == Len(sleeps'["async"])
        IN
        /\ sleeps'["async"] # sleeps["async"] /\ n > 0
              => /\ n = Len(sleeps["async"]) + 1
                 /\ n = requests'["async"]
                 /\ n <= max_retries
                 /\ delay'["async"] >= 1000 * (2 ^ n)
                 /\ delay'["async"] <= 1000 * (2 ^ n) + 1000
                 /\ n = 1 => delay'["async"] \in 2000 .. 3000
                 /\ n > 1 => delay'["async"] > delay["async"]
        /\ ( /\ call'["async"].op = "log"
             /\ requests'["async"] = requests["async"] + 1
             /\ requests'["async"] = max_retries + 1 )
              => /\ pc'["async"] = "done"
                 /\ sleeps'["async"] = sleeps["async"]
      ]_vars

\* C18 witness: with max_retries = 2 the call is in its second and last
\* sleep, of 4 seconds, the shortest a second sleep can be.
C18_Witness ==
    /\ max_retries = 2
    /\ call["async"].op = "log"
    /\ pc["async"] = "sleeping"
    /\ Len(sleeps["async"]) = 2
    /\ delay["async"] = 4000

\* The sync client re-sent its request after the answer numbered i.
Resent(i) == i < requests["sync"] \/ (i = requests["sync"] /\ pc["sync"] = "sending")

\* C19 (as claimed): Client re-sends a request only when the method is POST
\* and the answer was one of the statuses 429, 500, 502, 503, 504 or a
\* transport failure, at most max_retries times in a call; and a GET
\* operation issues one request.
C19_OnlyPostResent ==
    /\ \A i \in 1 .. requests["sync"] :
          Resent(i) =>
            /\ call["sync"].method = "POST"
            /\ \/ script[i].exc # "none"
               \/ script[i].status \in {429, 500, 502, 503, 504}
    /\ requests["sync"] <= max_retries + 1
    /\ call["sync"].method = "GET" => requests["sync"] <= 1

\* What a log call that runs alone gets when its requests from number n on,
\* with its counter at att, are answered by the script: the number of its last
\* request and its outcome (none while the script does not reach that far).
RECURSIVE Alone(_, _)
Alone(n, att) ==
    IF n > Len(script) THEN [requests |-> n - 1, out |-> NoOutcome]
    ELSE LET try == AsyncLogTry(script[n], att, n)
         IN  IF try.do # "caught" THEN [requests |-> n, out |-> try.out]
             ELSE IF Exhausted(att + 1)
                  THEN [requests |-> n,
                        out |-> RaisedFrom("APIError", "Connection failed after retries: ", try.cls)]
             ELSE Alone(n + 1, att + 1)

\* C20: of two log calls running side by side on one AsyncClient each counts
\* its failed attempts in a counter of its own, issues at most
\* max_retries + 1 requests, can issue its request while the other sleeps,
\* and ends after the requests and with the outcome of a call that meets the
\* same answers alone.
C20_ConcurrentCallsIndependent ==
    \A t \in Tasks :
        call[t].op = "log" =>
            /\ requests[t] <= max_retries + 1
            /\ pc[t] \in {"sending", "sleeping"} => attempt[t] = requests[t]
            /\ (pc[t] = "sending" /\ \E u \in Tasks : pc[u] = "sleeping")
                  => ENABLED AsyncLogAttempt(t)
            /\ (pc[t] = "done" /\ requests[t] >= 1)
                  => Alone(1, 0) = [requests |-> requests[t], out |-> outcome[t]]
            /\ (pc[t] = "done" /\ requests[t] = 0)
                  => \A u \in Tasks : pc[u] = "done" => outcome[u] = outcome[t]

\* C20 witness: the second task, started after the first, has been through a
\* failed attempt, its sleep and a successful attempt while the first task is
\* still in its first sleep.
C20_Witness ==
    /\ pc["async"] = "sleeping"
    /\ requests["async"] = 1
    /\ pc["async2"] = "done"
    /\ requests["async2"] = 2
    /\ outcome["async2"] = Result(2)

\* The sessions the AsyncClient has created that are still open: the one
\* self._session refers to, if open, and those it no longer refers to.
OpenSessions == orphans + (IF session = "open" THEN 1 ELSE 0)

\* C21 (as claimed): of the sessions an AsyncClient has created at most one is
\* open, none was replaced while still open, and once the "async with" block
\* has been left none is open.
C21_AtMostOneSession ==
    /\ orphans = 0
    /\ OpenSessions <= 1
    /\ scope = "exited" => OpenSessions = 0

\* C22 (as claimed): in AsyncClient.log no request follows one that was
\* answered with status 200 or 201, whether or not the body of that answer
\* can be decoded.
C22_NoRetryAfterSuccess ==
    call["async"].op = "log" =>
        \A i \in 1 .. requests["async"] :
            (script[i].exc = "none" /\ script[i].status \in {200, 201})
                => i = requests["async"]

\* C23 (as claimed): an AsyncClient call that has got past its local checks
\* and is about to send, or is between two attempts, has an open session to
\* send on, also when it was made after __aexit__ closed the session.
C23_NoUseOfClosedSession ==
    \A t \in Tasks :
        pc[t] \in {"sending", "sleeping"} => session = "open"

\* C24 (as claimed): an AsyncClient that held no session when log was called
\* with an action the validator refuses, or search_events with a query of
\* fewer than 2 characters, holds none after the call has raised
\* ValidationError.
C24_RejectedCallAcquiresNothing ==
    ( /\ pc["async"] = "done"
      /\ outcome["async"].kind = "ValidationError"
      /\ requests["async"] = 0
      /\ scope = "never" )
    => session = "None"

=============================================================================
